---------------------------- MODULE Spec2Model ----------------------------
(***************************************************************************)
(* The in-memory account / token / device store of src/lib/db/mem.js.      *)
(*                                                                         *)
(* The nine module-level tables of the source are the variables.  Every    *)
(* store operation is an operator on a store record (the nine tables)      *)
(* that returns the new store and the error kind the returned promise      *)
(* settles with; an action applies one operation to the variables.         *)
(***************************************************************************)
EXTENDS Naturals, Sequences, FiniteSets, TLC

VARIABLES
  accounts,               \* hex uid -> account object (with its devices)
  uidByNormalizedEmail,   \* normalized email -> hex uid
  uidByOpenId,            \* openId property key -> hex uid
  sessionTokens,          \* hex token id -> session token
  keyFetchTokens,         \* hex token id -> key-fetch token
  accountResetTokens,     \* hex token id -> account-reset token
  passwordChangeTokens,   \* hex token id -> password-change token
  passwordForgotTokens,   \* hex token id -> password-forgot token
  accountUnlockCodes,     \* property key of the uid buffer -> unlock code
  queue,                  \* promise callbacks scheduled and not yet run (FIFO)
  draining,               \* TRUE while the promise library runs the scheduled callbacks
  base,                   \* the store when the current burst of calls began
  burst                   \* the calls issued in the current burst, in issue order

tables == <<accounts, uidByNormalizedEmail, uidByOpenId, sessionTokens, keyFetchTokens,
            accountResetTokens, passwordChangeTokens, passwordForgotTokens,
            accountUnlockCodes>>
async == <<queue, draining, base, burst>>
vars == <<tables, async>>

-----------------------------------------------------------------------------
(* JavaScript values.  Every value is a string, so that any two compare.   *)

null == "#null"
undefined == "#undefined"

Falsy(v) == v \in {null, undefined, ""}

\* ToPropertyKey: obj[v] uses String(v) as the key.
PropertyKey(v) ==
  IF v = undefined THEN "undefined" ELSE IF v = null THEN "null" ELSE v

(* Buffers.  A buffer is one byte long here and named by its content: the  *)
(* six ASCII letters and two bytes that are no valid UTF-8.                *)
Buffers == {"a", "b", "c", "d", "e", "f", "g", "h", "<80>", "<81>"}

\* buffer.toString('hex')
toHex(b) ==
  CASE b = "a" -> "61" [] b = "b" -> "62" [] b = "c" -> "63" [] b = "d" -> "64"
    [] b = "e" -> "65" [] b = "f" -> "66" [] b = "g" -> "67" [] b = "h" -> "68"
    [] b = "<80>" -> "80" [] b = "<81>" -> "81"
    [] b = "hash1" -> "6831" [] b = "hash2" -> "6832" [] b = "hash3" -> "6833"
    [] OTHER -> b

\* String(buffer) = buffer.toString('utf8'): an invalid byte decodes to U+FFFD.
toUtf8(b) ==
  CASE b \in {"<80>", "<81>"} -> "U+FFFD"
    [] OTHER -> b

-----------------------------------------------------------------------------
(* Objects used as maps (functions with a finite domain of keys).          *)

Has(obj, k) == k \in DOMAIN obj

\* obj[k], undefined when the key is absent
Get(obj, k) == IF k \in DOMAIN obj THEN obj[k] ELSE undefined

\* obj[k] = v
Put(obj, k, v) == [x \in DOMAIN obj \cup {k} |-> IF x = k THEN v ELSE obj[x]]

\* delete obj[k]
Delete(obj, k) == [x \in DOMAIN obj \ {k} |-> obj[x]]

Empty == [x \in {} |-> undefined]

Store == [accounts |-> accounts,
          uidByNormalizedEmail |-> uidByNormalizedEmail,
          uidByOpenId |-> uidByOpenId,
          sessionTokens |-> sessionTokens,
          keyFetchTokens |-> keyFetchTokens,
          accountResetTokens |-> accountResetTokens,
          passwordChangeTokens |-> passwordChangeTokens,
          passwordForgotTokens |-> passwordForgotTokens,
          accountUnlockCodes |-> accountUnlockCodes]

EmptyStore == [accounts |-> Empty,
               uidByNormalizedEmail |-> Empty,
               uidByOpenId |-> Empty,
               sessionTokens |-> Empty,
               keyFetchTokens |-> Empty,
               accountResetTokens |-> Empty,
               passwordChangeTokens |-> Empty,
               passwordForgotTokens |-> Empty,
               accountUnlockCodes |-> Empty]

\* What a call settles with: the store it leaves and the error kind ("ok" when resolved).
Settled(s, err) == [s |-> s, err |-> err]

DEVICE_FIELDS == {"sessionTokenId", "name", "type", "createdAt", "callbackURL",
                  "callbackPublicKey"}

SESSION_FIELDS == {"uaBrowser", "uaBrowserVersion", "uaOS", "uaOSVersion",
                   "uaDeviceType", "lastAccessTime"}

\* new Buffer(32), filled with 0
ZeroKey == "<00 x32>"

-----------------------------------------------------------------------------
(* getAccountByUid: resolves with the account object or rejects NotFound.  *)
(* The lookup is synchronous, the callbacks chained to it run later.       *)
getAccountByUid(s, uid) ==
  IF Falsy(uid) THEN [found |-> FALSE, account |-> undefined]
  ELSE IF Has(s.accounts, toHex(uid))
       THEN [found |-> TRUE, account |-> s.accounts[toHex(uid)]]
       ELSE [found |-> FALSE, account |-> undefined]

(* A write to a field of the account object a callback holds.  The object  *)
(* is the one stored under its uid unless deleteAccount removed it since   *)
(* the lookup; a write to a removed object is not visible in the store.    *)
WriteAccount(s, uid, fields) ==
  IF Has(s.accounts, toHex(uid))
  THEN [s EXCEPT !.accounts[toHex(uid)] =
          [k \in DOMAIN @ |-> IF k \in DOMAIN fields THEN fields[k] ELSE @[k]]]
  ELSE s

-----------------------------------------------------------------------------
(* CREATE                                                                  *)

\* A createAccount that records the openId before it looks at the email index.
createAccount_EarlyIndex(s, uid, data) ==
  LET hex == toHex(uid)
      row == [k \in DOMAIN data \cup {"devices", "lockedAt"} |->
                IF k = "devices" THEN Empty
                ELSE IF k = "lockedAt" THEN null ELSE data[k]]
      s1  == IF ~Falsy(data.openId) /\ ~Has(s.uidByOpenId, PropertyKey(data.openId))
             THEN [s EXCEPT !.uidByOpenId = Put(@, PropertyKey(data.openId), hex)]
             ELSE s
  IN  IF Has(s.accounts, hex) THEN Settled(s, "Duplicate")
      ELSE IF ~Falsy(data.openId) /\ Has(s.uidByOpenId, PropertyKey(data.openId))
           THEN Settled(s, "Duplicate")
      ELSE IF Has(s.uidByNormalizedEmail, data.normalizedEmail)
           THEN Settled(s1, "Duplicate")
      ELSE Settled(
             [s1 EXCEPT
                !.accounts = Put(@, hex, row),
                !.uidByNormalizedEmail = Put(@, data.normalizedEmail, hex)],
             "ok")

createAccount(s, uid, data) ==
  LET hex  == toHex(uid)
      row  == [k \in DOMAIN data \cup {"devices", "lockedAt"} |->
                 IF k = "devices" THEN Empty
                 ELSE IF k = "lockedAt" THEN null ELSE data[k]]
  IN  IF Has(s.accounts, hex) THEN Settled(s, "Duplicate")
      ELSE IF Has(s.uidByNormalizedEmail, data.normalizedEmail)
           THEN Settled(s, "Duplicate")
      ELSE IF ~Falsy(data.openId) /\ Has(s.uidByOpenId, PropertyKey(data.openId))
           THEN Settled(s, "Duplicate")
      ELSE Settled(
             [s EXCEPT
                !.uidByOpenId = IF ~Falsy(data.openId)
                                THEN Put(@, PropertyKey(data.openId), hex) ELSE @,
                !.accounts = Put(@, hex, row),
                !.uidByNormalizedEmail = Put(@, data.normalizedEmail, hex)],
             "ok")


\* A slip: the new session token has no lastAccessTime.
createSessionToken_NoAccessTime(s, tokenId, sessionToken) ==
  LET hex == toHex(tokenId)
  IN  IF Has(s.sessionTokens, hex) THEN Settled(s, "Duplicate")
      ELSE Settled(
             [s EXCEPT !.sessionTokens = Put(@, hex,
                [data             |-> sessionToken.data,
                 uid              |-> sessionToken.uid,
                 createdAt        |-> sessionToken.createdAt,
                 uaBrowser        |-> sessionToken.uaBrowser,
                 uaBrowserVersion |-> sessionToken.uaBrowserVersion,
                 uaOS             |-> sessionToken.uaOS,
                 uaOSVersion      |-> sessionToken.uaOSVersion,
                 uaDeviceType     |-> sessionToken.uaDeviceType,
                 lastAccessTime   |-> undefined])],
             "ok")

createSessionToken(s, tokenId, sessionToken) ==
  LET hex == toHex(tokenId)
  IN  IF Has(s.sessionTokens, hex) THEN Settled(s, "Duplicate")
      ELSE Settled(
             [s EXCEPT !.sessionTokens = Put(@, hex,
                [data             |-> sessionToken.data,
                 uid              |-> sessionToken.uid,
                 createdAt        |-> sessionToken.createdAt,
                 uaBrowser        |-> sessionToken.uaBrowser,
                 uaBrowserVersion |-> sessionToken.uaBrowserVersion,
                 uaOS             |-> sessionToken.uaOS,
                 uaOSVersion      |-> sessionToken.uaOSVersion,
                 uaDeviceType     |-> sessionToken.uaDeviceType,
                 lastAccessTime   |-> sessionToken.createdAt])],
             "ok")

createKeyFetchToken(s, tokenId, keyFetchToken) ==
  LET hex == toHex(tokenId)
  IN  IF Has(s.keyFetchTokens, hex) THEN Settled(s, "Duplicate")
      ELSE Settled(
             [s EXCEPT !.keyFetchTokens = Put(@, hex,
                [authKey   |-> keyFetchToken.authKey,
                 uid       |-> keyFetchToken.uid,
                 keyBundle |-> keyFetchToken.keyBundle,
                 createdAt |-> keyFetchToken.createdAt])],
             "ok")

\* A slip: the scan removes nothing.
deleteByUid_Nothing(uid, collection) == collection

(* deleteByUid: drops every row of the collection whose owner is uid (a    *)
(* hex string).  Every row the create operations insert carries the uid of *)
(* its payload, so the scan never meets a row without one.                 *)
deleteByUid(uid, collection) ==
  [key \in {k \in DOMAIN collection : toHex(collection[k].uid) # uid} |-> collection[key]]

createPasswordForgotToken(s, tokenId, passwordForgotToken) ==
  LET hex == toHex(tokenId)
  IN  IF Has(s.passwordForgotTokens, hex) THEN Settled(s, "Duplicate")
      ELSE Settled(
             [s EXCEPT !.passwordForgotTokens =
                Put(deleteByUid(toHex(passwordForgotToken.uid), @), hex,
                    [tokenData |-> passwordForgotToken.data,
                     uid       |-> passwordForgotToken.uid,
                     passCode  |-> passwordForgotToken.passCode,
                     tries     |-> passwordForgotToken.tries,
                     createdAt |-> passwordForgotToken.createdAt])],
             "ok")

createPasswordChangeToken(s, tokenId, passwordChangeToken) ==
  LET hex == toHex(tokenId)
  IN  IF Has(s.passwordChangeTokens, hex) THEN Settled(s, "Duplicate")
      ELSE Settled(
             [s EXCEPT !.passwordChangeTokens =
                Put(deleteByUid(toHex(passwordChangeToken.uid), @), hex,
                    [tokenData |-> passwordChangeToken.data,
                     uid       |-> passwordChangeToken.uid,
                     createdAt |-> passwordChangeToken.createdAt])],
             "ok")

createAccountResetToken(s, tokenId, accountResetToken) ==
  LET hex == toHex(tokenId)
  IN  Settled(
        [s EXCEPT !.accountResetTokens =
           Put(deleteByUid(toHex(accountResetToken.uid), @), hex,
               [tokenData |-> accountResetToken.data,
                uid       |-> accountResetToken.uid,
                createdAt |-> accountResetToken.createdAt])],
        "ok")

(* updateDeviceRecord: merges the payload into the device and links the    *)
(* device with the session token the payload names.  It throws Duplicate   *)
(* before it writes anything; otherwise it returns the device and the      *)
(* session table (the link is written into the session token).             *)
updateDeviceRecord(sessions, device, deviceInfo, deviceKey) ==
  LET sid        == Get(deviceInfo, "sessionTokenId")
      sessionKey == IF Falsy(sid) THEN "" ELSE toHex(sid)
      \* `session` is set when the payload names a session token that exists
      linked     == sessionKey # "" /\ Has(sessions, sessionKey)
      session    == sessions[sessionKey]
      merged     == [key \in DOMAIN device \cup DEVICE_FIELDS |->
                       IF key \notin DEVICE_FIELDS THEN device[key]
                       ELSE LET field == Get(deviceInfo, key)
                            IN  IF field \in {undefined, null}
                                THEN (IF Get(device, key) = undefined THEN null
                                      ELSE device[key])
                                ELSE IF field = "" /\ key = "callbackPublicKey"
                                     THEN ZeroKey
                                     ELSE field]
      mirrored   == [key \in DOMAIN merged \cup SESSION_FIELDS |->
                       IF key \in SESSION_FIELDS THEN session[key] ELSE merged[key]]
  IN  IF linked /\ ~Falsy(Get(session, "deviceKey")) /\ Get(session, "deviceKey") # deviceKey
      THEN [err |-> "Duplicate", device |-> device, sessions |-> sessions]
      ELSE IF linked
           THEN [err |-> "ok", device |-> mirrored,
                 sessions |-> [sessions EXCEPT ![sessionKey] = Put(@, "deviceKey", deviceKey)]]
           ELSE [err |-> "ok", device |-> merged, sessions |-> sessions]

createDevice(s, uid, deviceId, deviceInfo) ==
  LET deviceKey == toHex(deviceId)
      hex       == toHex(uid)
  IN  IF ~getAccountByUid(s, uid).found THEN Settled(s, "NotFound")
      ELSE IF Has(s.accounts[hex].devices, deviceKey) THEN Settled(s, "Duplicate")
      ELSE LET r == updateDeviceRecord(s.sessionTokens, [uid |-> uid, id |-> deviceId],
                                       deviceInfo, deviceKey)
           IN  IF r.err # "ok" THEN Settled(s, r.err)
               ELSE Settled([s EXCEPT !.sessionTokens = r.sessions,
                                      !.accounts[hex].devices = Put(@, deviceKey, r.device)],
                            "ok")

\* A slip: the old session token keeps its link when the device moves to another.
UnlinkOldSession_Never(sessions, device, deviceInfo) == sessions

(* updateDevice, lines 248-256: a device that moves to another session     *)
(* token clears the link of the one it leaves, if that one still exists.   *)
UnlinkOldSession(sessions, device, deviceInfo) ==
  LET given         == Get(deviceInfo, "sessionTokenId")
      oldSessionKey == toHex(device.sessionTokenId)
  IN  IF ~Falsy(device.sessionTokenId) /\ ~Falsy(given) /\ oldSessionKey # toHex(given)
         /\ Has(sessions, oldSessionKey)
      THEN [sessions EXCEPT ![oldSessionKey] = Put(@, "deviceKey", null)]
      ELSE sessions

updateDevice(s, uid, deviceId, deviceInfo) ==
  LET deviceKey == toHex(deviceId)
      hex       == toHex(uid)
  IN  IF ~getAccountByUid(s, uid).found THEN Settled(s, "NotFound")
      ELSE IF ~Has(s.accounts[hex].devices, deviceKey) THEN Settled(s, "NotFound")
      ELSE
        LET device   == s.accounts[hex].devices[deviceKey]
            unlinked == UnlinkOldSession(s.sessionTokens, device, deviceInfo)
            \* line 258: a payload without a session token is given the device's own
            info     == IF ~Falsy(device.sessionTokenId)
                           /\ Falsy(Get(deviceInfo, "sessionTokenId"))
                        THEN Put(deviceInfo, "sessionTokenId", device.sessionTokenId)
                        ELSE deviceInfo
            r        == updateDeviceRecord(unlinked, device, info, deviceKey)
        IN  \* the unlinking stays when updateDeviceRecord throws
            IF r.err # "ok" THEN Settled([s EXCEPT !.sessionTokens = unlinked], r.err)
            ELSE Settled([s EXCEPT !.sessionTokens = r.sessions,
                                   !.accounts[hex].devices = Put(@, deviceKey, r.device)],
                         "ok")

-----------------------------------------------------------------------------
(* DELETE                                                                  *)

deleteSessionToken(s, tokenId) ==
  Settled([s EXCEPT !.sessionTokens = Delete(@, toHex(tokenId))], "ok")

deleteKeyFetchToken(s, tokenId) ==
  Settled([s EXCEPT !.keyFetchTokens = Delete(@, toHex(tokenId))], "ok")

deleteAccountResetToken(s, tokenId) ==
  Settled([s EXCEPT !.accountResetTokens = Delete(@, toHex(tokenId))], "ok")

deletePasswordForgotToken(s, tokenId) ==
  Settled([s EXCEPT !.passwordForgotTokens = Delete(@, toHex(tokenId))], "ok")

deletePasswordChangeToken(s, tokenId) ==
  Settled([s EXCEPT !.passwordChangeTokens = Delete(@, toHex(tokenId))], "ok")

\* A slip: the device goes and the session token it names stays.
deleteDevice_KeepsSession(s, uid, deviceId) ==
  LET deviceKey == toHex(deviceId)
      hex       == toHex(uid)
  IN  IF ~getAccountByUid(s, uid).found THEN Settled(s, "NotFound")
      ELSE IF ~Has(s.accounts[hex].devices, deviceKey) THEN Settled(s, "NotFound")
      ELSE Settled([s EXCEPT !.accounts[hex].devices = Delete(@, deviceKey)], "ok")

deleteDevice(s, uid, deviceId) ==
  LET deviceKey == toHex(deviceId)
      hex       == toHex(uid)
  IN  IF ~getAccountByUid(s, uid).found THEN Settled(s, "NotFound")
      ELSE IF ~Has(s.accounts[hex].devices, deviceKey) THEN Settled(s, "NotFound")
      ELSE LET device     == s.accounts[hex].devices[deviceKey]
               sessionKey == IF Falsy(device.sessionTokenId) THEN ""
                             ELSE toHex(device.sessionTokenId)
           IN  Settled([s EXCEPT !.sessionTokens = Delete(@, sessionKey),
                                 !.accounts[hex].devices = Delete(@, deviceKey)],
                       "ok")

-----------------------------------------------------------------------------
(* READ                                                                    *)
(* A read settles with an error kind and the item it resolves with.  The   *)
(* token reads join fields of the owning account: where no such account    *)
(* exists, reading a field of it throws a TypeError.                       *)

Read(err, item) == [err |-> err, item |-> item]

keyFetchToken(s, id) ==
  LET hex == toHex(id)
  IN  IF ~Has(s.keyFetchTokens, hex) THEN Read("NotFound", Empty)
      ELSE LET token     == s.keyFetchTokens[hex]
               accountId == toHex(token.uid)
           IN  IF ~Has(s.accounts, accountId) THEN Read("TypeError", Empty)
               ELSE Read("ok", [authKey       |-> token.authKey,
                                uid           |-> token.uid,
                                keyBundle     |-> token.keyBundle,
                                createdAt     |-> token.createdAt,
                                emailVerified |-> s.accounts[accountId].emailVerified,
                                verifierSetAt |-> s.accounts[accountId].verifierSetAt])

passwordForgotToken(s, id) ==
  LET hex == toHex(id)
  IN  IF ~Has(s.passwordForgotTokens, hex) THEN Read("NotFound", Empty)
      ELSE LET token     == s.passwordForgotTokens[hex]
               accountId == toHex(token.uid)
           IN  IF ~Has(s.accounts, accountId) THEN Read("TypeError", Empty)
               ELSE Read("ok", [tokenData     |-> token.tokenData,
                                uid           |-> token.uid,
                                passCode      |-> token.passCode,
                                tries         |-> token.tries,
                                createdAt     |-> token.createdAt,
                                email         |-> s.accounts[accountId].email,
                                verifierSetAt |-> s.accounts[accountId].verifierSetAt])

passwordChangeToken(s, id) ==
  LET hex == toHex(id)
  IN  IF ~Has(s.passwordChangeTokens, hex) THEN Read("NotFound", Empty)
      ELSE LET token     == s.passwordChangeTokens[hex]
               accountId == toHex(token.uid)
           IN  IF ~Has(s.accounts, accountId) THEN Read("TypeError", Empty)
               ELSE Read("ok", [tokenData     |-> token.tokenData,
                                uid           |-> token.uid,
                                createdAt     |-> token.createdAt,
                                email         |-> s.accounts[accountId].email,
                                verifierSetAt |-> s.accounts[accountId].verifierSetAt])

accountResetToken(s, id) ==
  LET hex == toHex(id)
  IN  IF ~Has(s.accountResetTokens, hex) THEN Read("NotFound", Empty)
      ELSE LET token     == s.accountResetTokens[hex]
               accountId == toHex(token.uid)
           IN  IF ~Has(s.accounts, accountId) THEN Read("TypeError", Empty)
               ELSE Read("ok", [tokenData     |-> token.tokenData,
                                uid           |-> token.uid,
                                createdAt     |-> token.createdAt,
                                verifierSetAt |-> s.accounts[accountId].verifierSetAt])

\* string.toLowerCase() of the email spellings the callers use
toLowerCase(str) ==
  CASE str = "A@x" -> "a@x" [] str = "B@x" -> "b@x" [] str = "A@X" -> "a@x"
    [] OTHER -> str

(* filterAccount: extend({}, account) copies the fields, delete removes    *)
(* verifyHash from the copy.  item is what it resolves with, account the   *)
(* object it was given, as it is afterwards.                               *)
filterAccount(account) ==
  [item    |-> [k \in DOMAIN account \ {"verifyHash"} |-> account[k]],
   account |-> account]

\* A read of an account: the error kind, the item and the store it leaves.
AccountRead(s, found) ==
  IF ~found.found THEN [err |-> "NotFound", item |-> Empty, s |-> s]
  ELSE LET f == filterAccount(found.account)
       IN  [err  |-> "ok",
            item |-> f.item,
            s    |-> [s EXCEPT !.accounts =
                        [u \in DOMAIN @ |-> IF @[u] = found.account THEN f.account
                                            ELSE @[u]]]]

account(s, uid) == AccountRead(s, getAccountByUid(s, uid))

emailRecord(s, email) ==
  AccountRead(s, getAccountByUid(s, Get(s.uidByNormalizedEmail,
                                        toLowerCase(toUtf8(email)))))

\* openId.toString('utf8') throws a TypeError when no openId is passed
openIdRecord(s, openId) ==
  IF openId \in {undefined, null} THEN [err |-> "TypeError", item |-> Empty, s |-> s]
  ELSE AccountRead(s, getAccountByUid(s, Get(s.uidByOpenId, toUtf8(openId))))

\* a || null
OrNull(v) == IF Falsy(v) THEN null ELSE v

(* sessionToken: the stored fields of the token joined with fields of the  *)
(* account that owns it.                                                   *)
sessionToken(s, id) ==
  LET hex == toHex(id)
  IN  IF ~Has(s.sessionTokens, hex) THEN Read("NotFound", Empty)
      ELSE LET token     == s.sessionTokens[hex]
               accountId == toHex(token.uid)
           IN  IF ~Has(s.accounts, accountId) THEN Read("TypeError", Empty)
               ELSE LET owner == s.accounts[accountId]
                    IN  Read("ok",
                          [tokenData        |-> token.data,
                           uid              |-> token.uid,
                           createdAt        |-> token.createdAt,
                           uaBrowser        |-> OrNull(token.uaBrowser),
                           uaBrowserVersion |-> OrNull(token.uaBrowserVersion),
                           uaOS             |-> OrNull(token.uaOS),
                           uaOSVersion      |-> OrNull(token.uaOSVersion),
                           uaDeviceType     |-> OrNull(token.uaDeviceType),
                           lastAccessTime   |-> token.lastAccessTime,
                           emailVerified    |-> owner.emailVerified,
                           email            |-> owner.email,
                           emailCode        |-> owner.emailCode,
                           verifierSetAt    |-> owner.verifierSetAt,
                           locale           |-> owner.locale,
                           accountCreatedAt |-> owner.createdAt])

\* A slip: a missing account is reported as such.
checkPassword_NotFound(s, uid, hash) ==
  LET found == getAccountByUid(s, uid)
  IN  IF ~found.found THEN [err |-> "NotFound", item |-> Empty, s |-> s]
      ELSE IF toHex(found.account.verifyHash) = toHex(hash.verifyHash)
           THEN [err |-> "ok", item |-> [uid |-> uid], s |-> s]
           ELSE [err |-> "IncorrectPassword", item |-> Empty, s |-> s]

(* checkPassword: the hashes are compared as hex strings; a missing        *)
(* account is reported as an incorrect password.                           *)
checkPassword(s, uid, hash) ==
  LET found == getAccountByUid(s, uid)
  IN  IF ~found.found THEN [err |-> "IncorrectPassword", item |-> Empty, s |-> s]
      ELSE IF found.account.verifyHash \in {undefined, null}
              \/ hash.verifyHash \in {undefined, null}
           THEN [err |-> "TypeError", item |-> Empty, s |-> s]
      ELSE IF toHex(found.account.verifyHash) = toHex(hash.verifyHash)
           THEN [err |-> "ok", item |-> [uid |-> uid], s |-> s]
           ELSE [err |-> "IncorrectPassword", item |-> Empty, s |-> s]

\* A slip: the rejection of the lookup is passed on.
accountDevices_NotFound(s, uid) ==
  [err |-> IF getAccountByUid(s, uid).found THEN "ok" ELSE "NotFound",
   item |-> Empty, s |-> s]

(* accountDevices: the devices of the account, each refreshed from the     *)
(* session token it names; the refresh is written to the stored device.    *)
(* The item maps each device key to its device (the list, without order).  *)
accountDevices(s, uid) ==
  LET found == getAccountByUid(s, uid)
  IN  IF ~found.found THEN [err |-> "ok", item |-> Empty, s |-> s]
      ELSE LET refreshed ==
                 [id \in DOMAIN found.account.devices |->
                    LET device     == found.account.devices[id]
                        sessionKey == IF Falsy(device.sessionTokenId) THEN ""
                                      ELSE toHex(device.sessionTokenId)
                    IN  IF Has(s.sessionTokens, sessionKey)
                        THEN [k \in DOMAIN device \cup SESSION_FIELDS |->
                                IF k \in SESSION_FIELDS THEN s.sessionTokens[sessionKey][k]
                                ELSE device[k]]
                        ELSE device]
           IN  [err  |-> "ok",
                item |-> refreshed,
                s    |-> [s EXCEPT !.accounts[toHex(uid)].devices = refreshed]]

\* unlockCode: the table is keyed by the uid buffer coerced to a string
\* (an installed code is an object, which is never falsy)
unlockCode(s, uid) ==
  IF ~Has(s.accountUnlockCodes, toUtf8(uid)) THEN Read("NotFound", Empty)
  ELSE Read("ok", s.accountUnlockCodes[toUtf8(uid)])

-----------------------------------------------------------------------------
(* BATCH                                                                   *)
(* An operation written getAccountByUid(uid).then(callback) looks the      *)
(* account up when it is called and runs the callback later: xThen is the  *)
(* callback, given what the lookup found.  A caller that waits for each    *)
(* promise before the next call sees the two as one step: x.               *)

verifyEmailThen(s, found, uid) ==
  IF found.found THEN Settled(WriteAccount(s, uid, [emailVerified |-> "1"]), "ok")
  ELSE Settled(s, "ok")

verifyEmail(s, uid) == verifyEmailThen(s, getAccountByUid(s, uid), uid)

updateLocaleThen(s, found, uid, data) ==
  IF found.found THEN Settled(WriteAccount(s, uid, [locale |-> data.locale]), "ok")
  ELSE Settled(s, "NotFound")

updateLocale(s, uid, data) == updateLocaleThen(s, getAccountByUid(s, uid), uid, data)

lockAccountThen(s, found, uid, data) ==
  IF ~found.found THEN Settled(s, "NotFound")
  ELSE Settled(
         [WriteAccount(s, uid, [lockedAt |-> data.lockedAt])
            EXCEPT !.accountUnlockCodes =
              Put(@, toUtf8(uid), [uid |-> uid, unlockCode |-> data.unlockCode])],
         "ok")

lockAccount(s, uid, data) == lockAccountThen(s, getAccountByUid(s, uid), uid, data)

\* A slip: the account is unlocked and its unlock code stays.
unlockAccountThen_KeepsCode(s, found, uid) ==
  IF ~found.found THEN Settled(s, "ok")
  ELSE Settled(WriteAccount(s, uid, [lockedAt |-> null]), "ok")

unlockAccountThen(s, found, uid) ==
  IF ~found.found THEN Settled(s, "ok")
  ELSE Settled(
         [WriteAccount(s, uid, [lockedAt |-> null])
            EXCEPT !.accountUnlockCodes = Delete(@, toUtf8(uid))],
         "ok")

unlockAccount(s, uid) == unlockAccountThen(s, getAccountByUid(s, uid), uid)

\* A slip: the cascade forgets the key-fetch tokens.
Cascade_SkipsKeyFetch(s, uid) ==
  [s EXCEPT !.sessionTokens        = deleteByUid(uid, @),
            !.accountResetTokens   = deleteByUid(uid, @),
            !.passwordChangeTokens = deleteByUid(uid, @),
            !.passwordForgotTokens = deleteByUid(uid, @),
            !.accountUnlockCodes   = deleteByUid(uid, @)]

\* The six cascaded tables of resetAccount and deleteAccount.
Cascade(s, uid) ==
  [s EXCEPT !.sessionTokens        = deleteByUid(uid, @),
            !.keyFetchTokens       = deleteByUid(uid, @),
            !.accountResetTokens   = deleteByUid(uid, @),
            !.passwordChangeTokens = deleteByUid(uid, @),
            !.passwordForgotTokens = deleteByUid(uid, @),
            !.accountUnlockCodes   = deleteByUid(uid, @)]

resetAccountThen(s, found, uid, data) ==
  IF ~found.found THEN Settled(s, "NotFound")
  ELSE Settled(
         WriteAccount(Cascade(s, toHex(uid)), uid,
                      [verifyHash      |-> data.verifyHash,
                       authSalt        |-> data.authSalt,
                       wrapWrapKb      |-> data.wrapWrapKb,
                       verifierSetAt   |-> data.verifierSetAt,
                       verifierVersion |-> data.verifierVersion,
                       devices         |-> Empty]),
         "ok")

resetAccount(s, uid, data) == resetAccountThen(s, getAccountByUid(s, uid), uid, data)

deleteAccountThen(s, found, uid) ==
  IF ~found.found THEN Settled(s, "NotFound")
  ELSE LET row == found.account
       IN  Settled(
             [Cascade(s, toHex(uid)) EXCEPT
                !.uidByNormalizedEmail = Delete(@, PropertyKey(row.normalizedEmail)),
                !.uidByOpenId          = Delete(@, PropertyKey(Get(row, "openId"))),
                !.accounts             = Delete(@, toHex(uid))],
             "ok")

deleteAccount(s, uid) == deleteAccountThen(s, getAccountByUid(s, uid), uid)

(* forgotPasswordVerified calls its four steps in order; the first two     *)
(* write at once, the callbacks of the last two run next, in that order.   *)
(* None of the four rejects, so P.all resolves.                            *)
forgotPasswordVerified(s, tokenId, resetToken) ==
  LET s1 == deletePasswordForgotToken(s, tokenId).s
      s2 == createAccountResetToken(s1, resetToken.tokenId, resetToken).s
      s3 == verifyEmail(s2, resetToken.uid).s
      s4 == unlockAccount(s3, resetToken.uid).s
  IN  Settled(s4, "ok")

-----------------------------------------------------------------------------
(* UPDATE                                                                  *)

updatePasswordForgotToken(s, id, data) ==
  IF ~Has(s.passwordForgotTokens, toHex(id)) THEN Settled(s, "NotFound")
  ELSE Settled([s EXCEPT !.passwordForgotTokens[toHex(id)].tries = data.tries], "ok")

updateSessionToken(s, id, data) ==
  IF ~Has(s.sessionTokens, toHex(id)) THEN Settled(s, "NotFound")
  ELSE Settled(
         [s EXCEPT !.sessionTokens[toHex(id)] =
            [k \in DOMAIN @ |-> IF k \in SESSION_FIELDS THEN data[k] ELSE @[k]]],
         "ok")

-----------------------------------------------------------------------------
(* The callers.  A call is made with arguments drawn from small sets; the  *)
(* caller waits for the promise to settle before the next call, so a       *)
(* whole handler is one step.                                              *)

\* How many session-token identifiers the callers use.
MaxSessions == 2
\* How many identifiers the callers use in each workflow-token table.
MaxTokens == 2
\* How many calls a caller issues without waiting for the promises to settle.
MaxBurst == 2

Uids == {"a", "b"}
SessionIds == {<<"e", "f", "g", "h">>[i] : i \in 1..MaxSessions}
TokenIds == {<<"e", "f", "g", "h">>[i] : i \in 1..MaxTokens}

\* The credential fields resetAccount overwrites.
Credentials(v) ==
  [verifyHash |-> "hash" \o v, authSalt |-> "salt" \o v, wrapWrapKb |-> "wrap" \o v,
   verifierSetAt |-> "set" \o v, verifierVersion |-> "ver" \o v]

\* An account payload: the fields the store reads or writes.
AccountData(email, openId) ==
  [email |-> email, normalizedEmail |-> email, openId |-> openId,
   emailVerified |-> "0", emailCode |-> "code", locale |-> "en", createdAt |-> "t0",
   verifyHash |-> "hash1", authSalt |-> "salt1", wrapWrapKb |-> "wrap1",
   verifierSetAt |-> "set1", verifierVersion |-> "ver1"]

\* A session payload; its user-agent fields are named by the browser.
SessionData(uid, browser) ==
  [data |-> "blob", uid |-> uid, createdAt |-> "t1",
   uaBrowser |-> browser, uaBrowserVersion |-> browser \o "-v", uaOS |-> "Linux",
   uaOSVersion |-> undefined, uaDeviceType |-> undefined]

\* The payload of a key-fetch or workflow token.
TokenData(uid) ==
  [data |-> "blob", uid |-> uid, createdAt |-> "t1", passCode |-> "pass", tries |-> "3",
   authKey |-> "key", keyBundle |-> "bundle"]

ResetTokenData(tokenId, uid) ==
  [tokenId |-> tokenId, uid |-> uid, data |-> "blob", createdAt |-> "t1"]

LockData == [lockedAt |-> "t2", unlockCode |-> "code"]

Apply(s) ==
  /\ accounts' = s.accounts
  /\ uidByNormalizedEmail' = s.uidByNormalizedEmail
  /\ uidByOpenId' = s.uidByOpenId
  /\ sessionTokens' = s.sessionTokens
  /\ keyFetchTokens' = s.keyFetchTokens
  /\ accountResetTokens' = s.accountResetTokens
  /\ passwordChangeTokens' = s.passwordChangeTokens
  /\ passwordForgotTokens' = s.passwordForgotTokens
  /\ accountUnlockCodes' = s.accountUnlockCodes

\* A call that settled: the store takes its result.
Call(r) ==
  /\ Apply(r.s)
  /\ UNCHANGED async

Init ==
  /\ accounts = Empty
  /\ uidByNormalizedEmail = Empty
  /\ uidByOpenId = Empty
  /\ sessionTokens = Empty
  /\ keyFetchTokens = Empty
  /\ accountResetTokens = Empty
  /\ passwordChangeTokens = Empty
  /\ passwordForgotTokens = Empty
  /\ accountUnlockCodes = Empty
  /\ queue = <<>>
  /\ draining = FALSE
  /\ base = EmptyStore
  /\ burst = <<>>

(* Each action takes the set of argument lists its callers may pass.       *)

CreateAccount(C) == \E c \in C : Call(createAccount(Store, c[1], c[2]))

CreateSessionToken(C) == \E c \in C : Call(createSessionToken(Store, c[1], c[2]))

CreateKeyFetchToken(C) ==
  \E c \in C : Call(createKeyFetchToken(Store, c[1], TokenData(c[2])))

CreatePasswordForgotToken(C) ==
  \E c \in C : Call(createPasswordForgotToken(Store, c[1], TokenData(c[2])))

CreatePasswordChangeToken(C) ==
  \E c \in C : Call(createPasswordChangeToken(Store, c[1], TokenData(c[2])))

CreateAccountResetToken(C) ==
  \E c \in C : Call(createAccountResetToken(Store, c[1], TokenData(c[2])))

CreateDevice(C) == \E c \in C : Call(createDevice(Store, c[1], c[2], c[3]))

UpdateDevice(C) == \E c \in C : Call(updateDevice(Store, c[1], c[2], c[3]))

DeleteDevice(C) == \E c \in C : Call(deleteDevice(Store, c[1], c[2]))

DeleteSessionToken(T) == \E tokenId \in T : Call(deleteSessionToken(Store, tokenId))

DeleteKeyFetchToken(T) == \E tokenId \in T : Call(deleteKeyFetchToken(Store, tokenId))

DeleteAccountResetToken(T) ==
  \E tokenId \in T : Call(deleteAccountResetToken(Store, tokenId))

DeletePasswordForgotToken(T) ==
  \E tokenId \in T : Call(deletePasswordForgotToken(Store, tokenId))

DeletePasswordChangeToken(T) ==
  \E tokenId \in T : Call(deletePasswordChangeToken(Store, tokenId))

VerifyEmail(U) == \E uid \in U : Call(verifyEmail(Store, uid))

ForgotPasswordVerified(C) ==
  \E c \in C : Call(forgotPasswordVerified(Store, c[1], ResetTokenData(c[2], c[3])))

ResetAccount(C) == \E c \in C : Call(resetAccount(Store, c[1], c[2]))

DeleteAccount(U) == \E uid \in U : Call(deleteAccount(Store, uid))

LockAccount(U) == \E uid \in U : Call(lockAccount(Store, uid, LockData))

UnlockAccount(U) == \E uid \in U : Call(unlockAccount(Store, uid))

UpdatePasswordForgotToken(T) ==
  \E id \in T : Call(updatePasswordForgotToken(Store, id, [tries |-> "2"]))

UpdateSessionToken(C) == \E c \in C : Call(updateSessionToken(Store, c[1], c[2]))

UpdateLocale(C) == \E c \in C : Call(updateLocale(Store, c[1], c[2]))

\* accountDevices is a read that writes: the devices it refreshes stay refreshed.
AccountDevices(U) == \E uid \in U : Call(accountDevices(Store, uid))

-----------------------------------------------------------------------------
(* Identity: accounts are created with either email, and with no openId,   *)
(* the openId "oid" or the openId "undefined".                             *)

Emails == {"a@x", "b@x"}
OpenIds == {undefined, "oid", "undefined"}
AccountCalls == {<<uid, AccountData(e, o)>> : uid \in Uids, e \in Emails, o \in OpenIds}
ResetCalls == {<<uid, Credentials("2")>> : uid \in Uids}

Next ==
  \/ CreateAccount(AccountCalls)
  \/ DeleteAccount(Uids)
  \/ ResetAccount(ResetCalls)
  \/ LockAccount(Uids)
  \/ UnlockAccount(Uids)
  \/ VerifyEmail(Uids)

Spec == Init /\ [][Next]_vars

-----------------------------------------------------------------------------
(* The session / device linkage: two accounts, the session tokens, and     *)
(* devices c and d of account a and device c of account b.                 *)

OwnAccount == {<<uid, AccountData(uid \o "@x", undefined)>> : uid \in Uids}
\* Session token e is created by account a from Firefox, f by account b from Chrome, ...
SessionOwner(id) == IF id \in {"e", "g"} THEN "a" ELSE "b"
LinkSessions ==
  {<<id, SessionData(SessionOwner(id), IF SessionOwner(id) = "a" THEN "Firefox" ELSE "Chrome")>> :
     id \in SessionIds}
LinkDevices == {<<"a", "c">>, <<"a", "d">>, <<"b", "c">>}
LinkInfos == {[name |-> "phone"]}
               \cup {[name |-> "phone", sessionTokenId |-> id] : id \in SessionIds}
LinkDeviceCalls == {<<dev[1], dev[2], info>> : dev \in LinkDevices, info \in LinkInfos}

NextLink ==
  \/ CreateAccount(OwnAccount)
  \/ CreateSessionToken(LinkSessions)
  \/ CreateDevice(LinkDeviceCalls)
  \/ UpdateDevice(LinkDeviceCalls)
  \/ DeleteDevice(LinkDevices)
  \/ DeleteSessionToken(SessionIds)
  \/ ResetAccount(ResetCalls)
  \/ DeleteAccount(Uids)

SpecLink == Init /\ [][NextLink]_vars

-----------------------------------------------------------------------------
(* One account on its own: account a, its session tokens and its devices   *)
(* c and d.                                                                *)

OwnSessions == {<<id, SessionData("a", "Firefox")>> : id \in SessionIds}
OwnDevices == {<<"a", "c">>, <<"a", "d">>}
OwnDeviceCalls == {<<dev[1], dev[2], info>> : dev \in OwnDevices, info \in LinkInfos}

NextOwn ==
  \/ CreateAccount({<<"a", AccountData("a@x", undefined)>>})
  \/ CreateSessionToken(OwnSessions)
  \/ CreateDevice(OwnDeviceCalls)
  \/ UpdateDevice(OwnDeviceCalls)
  \/ DeleteDevice(OwnDevices)
  \/ DeleteSessionToken(SessionIds)
  \/ ResetAccount({<<"a", Credentials("2")>>})
  \/ DeleteAccount({"a"})

SpecOwn == Init /\ [][NextOwn]_vars

-----------------------------------------------------------------------------
(* The cascades: two accounts, and in every cascaded table a row e that    *)
(* account a owns and a row f that account b owns; account a has device c. *)

CascadeIds == {"e", "f"}
CascadeTokens == {<<id, SessionOwner(id)>> : id \in CascadeIds}
CascadeSessions ==
  {<<id, SessionData(SessionOwner(id), IF SessionOwner(id) = "a" THEN "Firefox" ELSE "Chrome")>> :
     id \in CascadeIds}
CascadeDeviceCalls == {<<"a", "c", [name |-> "phone"]>>,
                       <<"a", "c", [name |-> "phone", sessionTokenId |-> "e"]>>}

NextCascade ==
  \/ CreateAccount(OwnAccount)
  \/ CreateSessionToken(CascadeSessions)
  \/ CreateKeyFetchToken(CascadeTokens)
  \/ CreatePasswordForgotToken(CascadeTokens)
  \/ CreatePasswordChangeToken(CascadeTokens)
  \/ CreateAccountResetToken(CascadeTokens)
  \/ CreateDevice(CascadeDeviceCalls)
  \/ LockAccount(Uids)
  \/ UnlockAccount(Uids)
  \/ ResetAccount(ResetCalls)
  \/ DeleteAccount(Uids)

SpecCascade == Init /\ [][NextCascade]_vars

-----------------------------------------------------------------------------
(* The workflow tokens: two accounts, either of which may own any token    *)
(* identifier in any of the three tables.                                  *)

TokenCalls == TokenIds \X Uids
ForgotCalls == TokenIds \X TokenIds \X Uids

NextTokens ==
  \/ CreateAccount(OwnAccount)
  \/ CreatePasswordForgotToken(TokenCalls)
  \/ CreatePasswordChangeToken(TokenCalls)
  \/ CreateAccountResetToken(TokenCalls)
  \/ DeletePasswordForgotToken(TokenIds)
  \/ DeletePasswordChangeToken(TokenIds)
  \/ DeleteAccountResetToken(TokenIds)
  \/ UpdatePasswordForgotToken(TokenIds)
  \/ ForgotPasswordVerified(ForgotCalls)
  \/ LockAccount(Uids)
  \/ ResetAccount({<<uid, Credentials("1")>> : uid \in Uids})
  \/ DeleteAccount(Uids)

SpecTokens == Init /\ [][NextTokens]_vars

-----------------------------------------------------------------------------
(* Sessions read back: both accounts, session tokens created for either    *)
(* from Firefox, overwritten from Chrome, while the owner verifies its     *)
(* email, changes its locale or is deleted.                                *)

ReadSessions == {<<id, SessionData(uid, "Firefox")>> : id \in SessionIds, uid \in Uids}
SessionUpdate ==
  [uaBrowser |-> "Chrome", uaBrowserVersion |-> "Chrome-v", uaOS |-> undefined,
   uaOSVersion |-> "10", uaDeviceType |-> "mobile", lastAccessTime |-> "t9"]
SessionUpdates == {<<id, SessionUpdate>> : id \in SessionIds}
LocaleCalls == {<<uid, [locale |-> "fr"]>> : uid \in Uids}

NextSession ==
  \/ CreateAccount(OwnAccount)
  \/ CreateSessionToken(ReadSessions)
  \/ UpdateSessionToken(SessionUpdates)
  \/ DeleteSessionToken(SessionIds)
  \/ VerifyEmail(Uids)
  \/ UpdateLocale(LocaleCalls)
  \/ DeleteAccount(Uids)

SpecSession == Init /\ [][NextSession]_vars

-----------------------------------------------------------------------------
(* Calls issued back to back.  A caller may issue up to MaxBurst calls     *)
(* without waiting for the promises to settle.  createAccount and          *)
(* createSessionToken do all their work in the call.  deleteAccount and    *)
(* lockAccount look the account up in the call and chain a callback to     *)
(* the lookup; the promise library queues the callback and runs the queue  *)
(* in order once the caller's code has returned.                           *)

AsyncAccount == AccountData("a@x", undefined)
AsyncSession == SessionData("a", "Firefox")

\* The calls of a burst: the operation, and the error kind once it is known.
Issued(op, err) == [op |-> op, err |-> err]

\* A call may be issued while no callback runs; a call issued when nothing is pending
\* begins a new burst.
CanIssue == ~draining /\ (queue = <<>> \/ Len(burst) < MaxBurst)

Issue(entry) ==
  /\ CanIssue
  /\ burst' = IF queue = <<>> THEN <<entry>> ELSE Append(burst, entry)
  /\ base' = IF queue = <<>> THEN Store ELSE base
  /\ draining' = FALSE

IssueCreateAccount ==
  LET r == createAccount(Store, "a", AsyncAccount)
  IN  /\ Issue(Issued("createAccount", r.err))
      /\ Apply(r.s)
      /\ UNCHANGED queue

IssueCreateSessionToken ==
  LET r == createSessionToken(Store, "e", AsyncSession)
  IN  /\ Issue(Issued("createSessionToken", r.err))
      /\ Apply(r.s)
      /\ UNCHANGED queue

\* The callback is queued with what the lookup found and its place in the burst.
Then(op) ==
  /\ Issue(Issued(op, "pending"))
  /\ queue' = Append(queue, [op |-> op, found |-> getAccountByUid(Store, "a"),
                             at |-> Len(burst')])
  /\ UNCHANGED tables

IssueDeleteAccount == Then("deleteAccount")

IssueLockAccount == Then("lockAccount")

\* The promise library runs the callback at the head of the queue.
RunCallback ==
  /\ queue # <<>>
  /\ LET cb == Head(queue)
         r  == IF cb.op = "deleteAccount" THEN deleteAccountThen(Store, cb.found, "a")
               ELSE lockAccountThen(Store, cb.found, "a", LockData)
     IN  /\ Apply(r.s)
         /\ burst' = [burst EXCEPT ![cb.at].err = r.err]
  /\ queue' = Tail(queue)
  /\ draining' = (Tail(queue) # <<>>)
  /\ UNCHANGED base

NextAsync ==
  \/ IssueCreateAccount
  \/ IssueCreateSessionToken
  \/ IssueDeleteAccount
  \/ IssueLockAccount
  \/ RunCallback

SpecAsync == Init /\ [][NextAsync]_vars

-----------------------------------------------------------------------------
(* What the claims speak of.                                               *)

\* The devices of the store s, each named by its account and its key.
DevicesOf(s) ==
  {<<u, k>> \in (DOMAIN s.accounts) \X {toHex(b) : b \in Buffers} :
     k \in DOMAIN s.accounts[u].devices}

DeviceAt(s, d) == s.accounts[d[1]].devices[d[2]]

\* The devices whose sessionTokenId names the session token stored under key S.
DevicesBoundTo(s, S) ==
  {d \in DevicesOf(s) : ~Falsy(DeviceAt(s, d).sessionTokenId)
                          /\ toHex(DeviceAt(s, d).sessionTokenId) = S}

\* The rows of a table that account uid owns.
RowsOf(table, uid) == {k \in DOMAIN table : table[k].uid = uid}

\* Device d and session token S name each other.
Linked(s, d, S) ==
  /\ d \in DevicesBoundTo(s, S)
  /\ Has(s.sessionTokens, S)
  /\ Get(s.sessionTokens[S], "deviceKey") = d[2]

-----------------------------------------------------------------------------
(* C1: in every reachable state, a session token with a non-null deviceKey *)
(* names exactly one device, that device's sessionTokenId is the session   *)
(* token's identifier, and no second device is bound to the session token. *)
C1_DeviceKeyNamesOneDevice ==
  \A S \in DOMAIN sessionTokens :
    LET key == Get(sessionTokens[S], "deviceKey")
    IN  ~Falsy(key) =>
          /\ Cardinality({d \in DevicesOf(Store) : d[2] = key}) = 1
          /\ \A d \in DevicesOf(Store) : d[2] = key => d \in DevicesBoundTo(Store, S)
          /\ Cardinality(DevicesBoundTo(Store, S)) = 1

(* C6: when device D is bound to session token S, a createDevice or        *)
(* updateDevice that passes S as the sessionTokenId of another device      *)
(* fails with Duplicate (NotFound when the account or the device to update *)
(* is absent), and afterwards S still names D and D still names S.         *)
C6_SecondBindingFails ==
  \A d \in DevicesOf(Store), S \in DOMAIN sessionTokens, c \in LinkDeviceCalls :
    (/\ Linked(Store, d, S)
     /\ <<toHex(c[1]), toHex(c[2])>> # d
     /\ ~Falsy(Get(c[3], "sessionTokenId"))
     /\ toHex(c[3].sessionTokenId) = S)
    => \A r \in {createDevice(Store, c[1], c[2], c[3]),
                 updateDevice(Store, c[1], c[2], c[3])} :
         /\ r.err \in {"Duplicate", "NotFound"}
         /\ r.err = "NotFound" =>
              ~(Has(accounts, toHex(c[1]))
                /\ Has(accounts[toHex(c[1])].devices, toHex(c[2])))
         /\ Linked(r.s, d, S)

(* C7: when device D is bound to session token S1 and updateDevice passes  *)
(* another session token S2 that exists and is bound to no device, the     *)
(* call succeeds, S1's deviceKey is cleared, S2's deviceKey names D, D's   *)
(* sessionTokenId is S2 and D's mirrored fields are those of S2.           *)
C7_UpdateMovesLink ==
  \A d \in DevicesOf(Store), S1 \in DOMAIN sessionTokens, c \in LinkDeviceCalls :
    LET S2 == toHex(Get(c[3], "sessionTokenId"))
    IN  (/\ Linked(Store, d, S1)
         /\ <<toHex(c[1]), toHex(c[2])>> = d
         /\ ~Falsy(Get(c[3], "sessionTokenId"))
         /\ S2 # S1
         /\ Has(sessionTokens, S2)
         /\ Falsy(Get(sessionTokens[S2], "deviceKey")))
        => LET r == updateDevice(Store, c[1], c[2], c[3])
           IN  /\ r.err = "ok"
               /\ r.s.sessionTokens[S1].deviceKey = null
               /\ Get(r.s.sessionTokens[S2], "deviceKey") = d[2]
               /\ DeviceAt(r.s, d).sessionTokenId = c[3].sessionTokenId
               /\ \A k \in SESSION_FIELDS : DeviceAt(r.s, d)[k] = r.s.sessionTokens[S2][k]

\* A store in which a device bound to one session token is moved to a free one
\* whose user-agent fields differ.
C7_Witness ==
  \E d \in DevicesOf(Store), S1 \in DOMAIN sessionTokens, c \in LinkDeviceCalls :
    LET S2 == toHex(Get(c[3], "sessionTokenId"))
    IN  /\ Linked(Store, d, S1)
        /\ <<toHex(c[1]), toHex(c[2])>> = d
        /\ ~Falsy(Get(c[3], "sessionTokenId"))
        /\ S2 # S1
        /\ Has(sessionTokens, S2)
        /\ Falsy(Get(sessionTokens[S2], "deviceKey"))
        /\ sessionTokens[S2].uaBrowser # sessionTokens[S1].uaBrowser
        /\ DeviceAt(Store, d).uaBrowser = sessionTokens[S1].uaBrowser
        /\ updateDevice(Store, c[1], c[2], c[3]).err = "ok"
        /\ updateDevice(Store, c[1], c[2], c[3]).s.sessionTokens[S1].deviceKey = null

-----------------------------------------------------------------------------
\* The tables deleteAccount and resetAccount cascade over.
CascadedTables == {"sessionTokens", "keyFetchTokens", "accountResetTokens",
                   "passwordChangeTokens", "passwordForgotTokens", "accountUnlockCodes"}

\* Account uid owns no row of a cascaded table of s.
NoRowsOf(s, uid) == \A tb \in CascadedTables : RowsOf(s[tb], uid) = {}

\* From s to s2, every row of a cascaded table that another account owns is unchanged,
\* and no row appears.
OtherRowsKept(s, s2, uid) ==
  \A tb \in CascadedTables :
    /\ \A k \in DOMAIN s[tb] : s[tb][k].uid # uid => Has(s2[tb], k) /\ s2[tb][k] = s[tb][k]
    /\ DOMAIN s2[tb] \subseteq DOMAIN s[tb]

\* From s to s2, every entry of the index that maps to another account is unchanged.
OtherEntriesKept(index, index2, hex) ==
  \A k \in DOMAIN index : index[k] # hex => Has(index2, k) /\ index2[k] = index[k]

(* C2: in every reachable state no two accounts share a normalized email   *)
(* or an openId, and each index holds exactly the entries of the accounts: *)
(* uidByNormalizedEmail[e] = u exactly when account u has normalized email *)
(* e, and uidByOpenId[o] = u exactly when account u has openId o.          *)
C2_IndicesAgree ==
  /\ \A u1, u2 \in DOMAIN accounts :
       u1 # u2 =>
         /\ accounts[u1].normalizedEmail # accounts[u2].normalizedEmail
         /\ ~Falsy(accounts[u1].openId) => accounts[u1].openId # accounts[u2].openId
  /\ \A e \in DOMAIN uidByNormalizedEmail :
       /\ Has(accounts, uidByNormalizedEmail[e])
       /\ accounts[uidByNormalizedEmail[e]].normalizedEmail = e
  /\ \A o \in DOMAIN uidByOpenId :
       /\ Has(accounts, uidByOpenId[o])
       /\ accounts[uidByOpenId[o]].openId = o
  /\ \A u \in DOMAIN accounts :
       /\ Get(uidByNormalizedEmail, accounts[u].normalizedEmail) = u
       /\ ~Falsy(accounts[u].openId) => Get(uidByOpenId, accounts[u].openId) = u

(* C4: deleteAccount of an absent account fails with NotFound and changes  *)
(* nothing; of an account A it succeeds, after it A's row, its two index   *)
(* entries and every row A owns in the cascaded tables are gone, and every *)
(* row and index entry of another account is unchanged.                    *)
C4_DeleteAccountFrame ==
  \A uid \in Uids :
    LET r   == deleteAccount(Store, uid)
        hex == toHex(uid)
    IN  IF ~Has(accounts, hex)
        THEN r.err = "NotFound" /\ r.s = Store
        ELSE /\ r.err = "ok"
             /\ ~Has(r.s.accounts, hex)
             /\ \A e \in DOMAIN r.s.uidByNormalizedEmail : r.s.uidByNormalizedEmail[e] # hex
             /\ \A o \in DOMAIN r.s.uidByOpenId : r.s.uidByOpenId[o] # hex
             /\ NoRowsOf(r.s, uid)
             /\ OtherRowsKept(Store, r.s, uid)
             /\ \A u \in DOMAIN accounts : u # hex => Get(r.s.accounts, u) = accounts[u]
             /\ OtherEntriesKept(uidByNormalizedEmail, r.s.uidByNormalizedEmail, hex)
             /\ OtherEntriesKept(uidByOpenId, r.s.uidByOpenId, hex)

(* C10: createAccount fails with Duplicate whenever the uid exists, the    *)
(* normalized email is indexed or a supplied openId is indexed; a call     *)
(* that fails leaves the store as it was; one that succeeds inserts the    *)
(* payload as the row, with no devices and a null lockedAt, and the index  *)
(* entries of its email and of its openId (when it has one), nothing else. *)
C10_CreateAccount ==
  \A c \in AccountCalls :
    LET uid  == c[1]
        data == c[2]
        hex  == toHex(uid)
        r    == createAccount(Store, uid, data)
        dup  == \/ Has(accounts, hex)
                \/ Has(uidByNormalizedEmail, data.normalizedEmail)
                \/ ~Falsy(data.openId) /\ Has(uidByOpenId, data.openId)
    IN  /\ dup => r.err = "Duplicate"
        /\ r.err \in {"ok", "Duplicate"}
        /\ r.err = "Duplicate" => r.s = Store
        /\ r.err = "ok" =>
             /\ DOMAIN r.s.accounts = DOMAIN accounts \cup {hex}
             /\ \A u \in DOMAIN accounts : r.s.accounts[u] = accounts[u]
             /\ r.s.accounts[hex].devices = Empty
             /\ r.s.accounts[hex].lockedAt = null
             /\ \A k \in DOMAIN data : r.s.accounts[hex][k] = data[k]
             /\ r.s.uidByNormalizedEmail = Put(uidByNormalizedEmail, data.normalizedEmail, hex)
             /\ r.s.uidByOpenId = IF Falsy(data.openId) THEN uidByOpenId
                                  ELSE Put(uidByOpenId, data.openId, hex)
             /\ \A tb \in CascadedTables : r.s[tb] = Store[tb]

\* A store in which a call with a fresh uid and a fresh openId is refused for its
\* email, and another call with an openId is accepted.
C10_Witness ==
  /\ \E c \in AccountCalls :
       /\ ~Has(accounts, toHex(c[1]))
       /\ Has(uidByNormalizedEmail, c[2].normalizedEmail)
       /\ ~Falsy(c[2].openId) /\ ~Has(uidByOpenId, c[2].openId)
       /\ createAccount(Store, c[1], c[2]).err = "Duplicate"
  /\ \E c \in AccountCalls :
       /\ ~Falsy(c[2].openId)
       /\ createAccount(Store, c[1], c[2]).err = "ok"

-----------------------------------------------------------------------------
WorkflowTables == {"passwordForgotTokens", "passwordChangeTokens", "accountResetTokens"}

\* After a create in table tb settled with r, no token that uid owned before under
\* another identifier can be read: its read fails with NotFound.
PreviousGone(tb, r, id, uid, readErr(_, _)) ==
  r.err = "ok" =>
    /\ RowsOf(r.s[tb], uid) = {toHex(id)}
    /\ \A p \in TokenIds :
         (p # id /\ toHex(p) \in RowsOf(Store[tb], uid)) => readErr(r.s, p) = "NotFound"

ForgotReadErr(s, p) == passwordForgotToken(s, p).err
ChangeReadErr(s, p) == passwordChangeToken(s, p).err
ResetReadErr(s, p) == accountResetToken(s, p).err

(* C3: in every reachable state each workflow-token table holds at most    *)
(* one row per account; a create that succeeds for account A leaves A's    *)
(* new token as A's only row of the table, and reading the token A had     *)
(* before fails with NotFound.                                             *)
C3_OneWorkflowTokenPerAccount ==
  /\ \A tb \in WorkflowTables, uid \in Uids : Cardinality(RowsOf(Store[tb], uid)) <= 1
  /\ \A c \in TokenCalls :
       /\ PreviousGone("passwordForgotTokens",
                       createPasswordForgotToken(Store, c[1], TokenData(c[2])),
                       c[1], c[2], ForgotReadErr)
       /\ PreviousGone("passwordChangeTokens",
                       createPasswordChangeToken(Store, c[1], TokenData(c[2])),
                       c[1], c[2], ChangeReadErr)
       /\ PreviousGone("accountResetTokens",
                       createAccountResetToken(Store, c[1], TokenData(c[2])),
                       c[1], c[2], ResetReadErr)

\* A store in which an account that has a token in each of the three tables is given
\* a new one under another identifier, while the other account has its own tokens.
C3_Witness ==
  \E c \in TokenCalls, p \in TokenIds, q \in Uids :
    /\ p # c[1] /\ q # c[2]
    /\ \A tb \in WorkflowTables : RowsOf(Store[tb], c[2]) = {toHex(p)}
    /\ passwordForgotToken(Store, p).err = "ok"
    /\ createPasswordForgotToken(Store, c[1], TokenData(c[2])).err = "ok"
    /\ createPasswordChangeToken(Store, c[1], TokenData(c[2])).err = "ok"
    /\ createAccountResetToken(Store, c[1], TokenData(c[2])).err = "ok"
    /\ passwordForgotToken(createPasswordForgotToken(Store, c[1], TokenData(c[2])).s, p).err
         = "NotFound"

(* C5: after resetAccount(A, data) succeeds A's row is still there with    *)
(* its email and its index entries, it has no devices, its five credential *)
(* fields are those of data, no cascaded table holds a row A owns, and     *)
(* every row of another account is unchanged.                              *)
C5_ResetAccountFrame ==
  \A c \in ResetCalls \cup {<<uid, Credentials("3")>> : uid \in Uids} :
    LET uid  == c[1]
        data == c[2]
        hex  == toHex(uid)
        r    == resetAccount(Store, uid, data)
    IN  r.err = "ok" =>
          /\ Has(accounts, hex)
          /\ DOMAIN r.s.accounts = DOMAIN accounts
          /\ \A k \in DOMAIN accounts[hex] :
               r.s.accounts[hex][k] = IF k = "devices" THEN Empty
                                      ELSE IF k \in DOMAIN data THEN data[k]
                                      ELSE accounts[hex][k]
          /\ DOMAIN data = {"verifyHash", "authSalt", "wrapWrapKb", "verifierSetAt",
                            "verifierVersion"}
          /\ r.s.uidByNormalizedEmail = uidByNormalizedEmail
          /\ r.s.uidByOpenId = uidByOpenId
          /\ NoRowsOf(r.s, uid)
          /\ OtherRowsKept(Store, r.s, uid)
          /\ \A u \in DOMAIN accounts : u # hex => r.s.accounts[u] = accounts[u]

\* A store in which resetAccount succeeds for an account that is locked, has a device
\* and owns a row of every cascaded table, while the other account owns rows too.
C5_Witness ==
  \E c \in ResetCalls, q \in Uids :
    /\ q # c[1]
    /\ resetAccount(Store, c[1], c[2]).err = "ok"
    /\ accounts[toHex(c[1])].devices # Empty
    /\ accounts[toHex(c[1])].verifyHash # c[2].verifyHash
    /\ \A tb \in CascadedTables : RowsOf(Store[tb], c[1]) # {} /\ RowsOf(Store[tb], q) # {}

\* What forgotPasswordVerified(tokenId, accountResetToken) leaves in the three tables
\* it writes whatever the account: no forgot token tokenId, and the new reset token
\* as the only reset token of its uid.
ForgotVerifiedTokens(r, tokenId, resetId, uid) ==
  /\ r.err = "ok"
  /\ ~Has(r.s.passwordForgotTokens, toHex(tokenId))
  /\ RowsOf(r.s.accountResetTokens, uid) = {toHex(resetId)}
  /\ r.s.accountResetTokens[toHex(resetId)].tokenData = ResetTokenData(resetId, uid).data

\* ... and in the account uid and the unlock codes: verified, unlocked, no unlock code.
ForgotVerifiedAccount(r, uid) ==
  /\ Has(r.s.accounts, toHex(uid))
  /\ r.s.accounts[toHex(uid)].emailVerified = "1"
  /\ r.s.accounts[toHex(uid)].lockedAt = null
  /\ RowsOf(r.s.accountUnlockCodes, uid) = {}
  /\ ~Has(r.s.accountUnlockCodes, toUtf8(uid))

-----------------------------------------------------------------------------
\* What a call of a burst does when it is run to completion on the store s.
Whole(s, op) ==
  CASE op = "createAccount"      -> createAccount(s, "a", AsyncAccount)
    [] op = "createSessionToken" -> createSessionToken(s, "e", AsyncSession)
    [] op = "deleteAccount"      -> deleteAccount(s, "a")
    [] op = "lockAccount"        -> lockAccount(s, "a", LockData)

\* The calls run one after the other, each to completion: the store they leave and
\* the error kinds they settle with.
RECURSIVE OneByOne(_, _)
OneByOne(s, calls) ==
  IF calls = <<>> THEN [s |-> s, errs |-> <<>>]
  ELSE LET r    == Whole(s, Head(calls).op)
           rest == OneByOne(r.s, Tail(calls))
       IN  [s |-> rest.s, errs |-> <<r.err>> \o rest.errs]

(* C9: calls issued back to back take effect in issue order: once all      *)
(* their promises have settled, the store and the results are those of     *)
(* running the calls one after the other, each to completion.              *)
C9_BurstAsOneByOne ==
  (queue = <<>> /\ burst # <<>>) =>
    /\ OneByOne(base, burst).s = Store
    /\ OneByOne(base, burst).errs = [i \in 1..Len(burst) |-> burst[i].err]

-----------------------------------------------------------------------------
\* The spellings under which callers look an email up.
EmailSpellings == {"a@x", "A@x", "A@X", "b@x", "B@x"}

\* The read r resolves with the filtered view of the account stored under hex and
\* leaves the store, the stored hash included, as it is.
ReadsAccount(r, hex) ==
  /\ r.err = "ok"
  /\ r.item = [k \in DOMAIN accounts[hex] \ {"verifyHash"} |-> accounts[hex][k]]
  /\ "verifyHash" \notin DOMAIN r.item
  /\ r.s = Store

(* C11: for every account in the store, account(uid), emailRecord of any   *)
(* spelling of its email and openIdRecord of its openId (when it has one)  *)
(* all resolve with the stored fields of that account without verifyHash,  *)
(* and leave the store, the stored verifyHash included, unchanged.         *)
C11_AccountReadsAgree ==
  \A uid \in Uids :
    Has(accounts, toHex(uid)) =>
      LET hex == toHex(uid)
          row == accounts[hex]
      IN  /\ ReadsAccount(account(Store, uid), hex)
          /\ \A e \in EmailSpellings :
               toLowerCase(e) = row.normalizedEmail =>
                 ReadsAccount(emailRecord(Store, e), hex)
          /\ ~Falsy(row.openId) => ReadsAccount(openIdRecord(Store, row.openId), hex)

-----------------------------------------------------------------------------
\* The user-agent fields of a payload as a read returns them: null where unset.
UaFields == SESSION_FIELDS \ {"lastAccessTime"}
UaOf(item, data) == \A k \in UaFields : item[k] = OrNull(data[k])

\* The account fields a session read joins, as the account row has them now.
JoinsAccount(item, row) ==
  /\ item.email = row.email
  /\ item.emailVerified = row.emailVerified
  /\ item.emailCode = row.emailCode
  /\ item.verifierSetAt = row.verifierSetAt
  /\ item.locale = row.locale
  /\ item.accountCreatedAt = row.createdAt

(* C12: a session token created for an existing account reads back with   *)
(* the user-agent fields of its payload (null where unset) and             *)
(* lastAccessTime equal to createdAt; after updateSessionToken it reads    *)
(* back with the fields of the update; and in every state a session token  *)
(* whose account exists reads back joined with that account's current      *)
(* fields, so that a verifyEmail or updateLocale in between shows in the   *)
(* next read.                                                              *)
C12_SessionReadsBack ==
  /\ \A c \in ReadSessions :
       LET r == createSessionToken(Store, c[1], c[2])
       IN  (Has(accounts, toHex(c[2].uid)) /\ r.err = "ok") =>
             LET got == sessionToken(r.s, c[1])
             IN  /\ got.err = "ok"
                 /\ UaOf(got.item, c[2])
                 /\ got.item.lastAccessTime = c[2].createdAt
                 /\ got.item.createdAt = c[2].createdAt
                 /\ got.item.uid = c[2].uid
                 /\ JoinsAccount(got.item, accounts[toHex(c[2].uid)])
  /\ \A id \in SessionIds :
       (Has(sessionTokens, toHex(id)) /\ Has(accounts, toHex(sessionTokens[toHex(id)].uid))) =>
         LET owner == sessionTokens[toHex(id)].uid
             now   == sessionToken(Store, id)
             upd   == sessionToken(updateSessionToken(Store, id, SessionUpdate).s, id)
             ver   == sessionToken(verifyEmail(Store, owner).s, id)
             loc   == sessionToken(updateLocale(Store, owner, [locale |-> "fr"]).s, id)
         IN  /\ now.err = "ok"
             /\ UaOf(now.item, sessionTokens[toHex(id)])
             /\ now.item.lastAccessTime = sessionTokens[toHex(id)].lastAccessTime
             /\ JoinsAccount(now.item, accounts[toHex(owner)])
             /\ upd.err = "ok"
             /\ UaOf(upd.item, SessionUpdate)
             /\ upd.item.lastAccessTime = SessionUpdate.lastAccessTime
             /\ JoinsAccount(upd.item, accounts[toHex(owner)])
             /\ ver.err = "ok" /\ ver.item.emailVerified = "1"
             /\ ver.item = [now.item EXCEPT !.emailVerified = "1"]
             /\ loc.err = "ok" /\ loc.item.locale = "fr"
             /\ loc.item = [now.item EXCEPT !.locale = "fr"]

\* A session token that was overwritten from Chrome, whose owner has verified its
\* email and changed its locale since the token was created, is read.
C12_Witness ==
  \E id \in SessionIds :
    /\ Has(sessionTokens, toHex(id))
    /\ Has(accounts, toHex(sessionTokens[toHex(id)].uid))
    /\ sessionToken(Store, id).err = "ok"
    /\ sessionToken(Store, id).item.uaBrowser = "Chrome"
    /\ sessionToken(Store, id).item.uaOS = null
    /\ sessionToken(Store, id).item.emailVerified = "1"
    /\ sessionToken(Store, id).item.locale = "fr"

-----------------------------------------------------------------------------
\* The device identifiers the callers use.
DeviceIds == {"c", "d"}

(* C13: deleteDevice(A, D) fails with NotFound, changing nothing, when     *)
(* account A or its device D is absent; otherwise it succeeds, and after   *)
(* it A has no device D, the session token D named does not exist, and     *)
(* A's other devices are as they were.                                     *)
C13_DeleteDeviceCascades ==
  \A uid \in Uids, d \in DeviceIds :
    LET hex    == toHex(uid)
        r      == deleteDevice(Store, uid, d)
        absent == ~Has(accounts, hex) \/ ~Has(accounts[hex].devices, toHex(d))
    IN  /\ absent => (r.err = "NotFound" /\ r.s = Store)
        /\ ~absent =>
             LET device == accounts[hex].devices[toHex(d)]
             IN  /\ r.err = "ok"
                 /\ ~Has(r.s.accounts[hex].devices, toHex(d))
                 /\ ~Falsy(device.sessionTokenId) =>
                      ~Has(r.s.sessionTokens, toHex(device.sessionTokenId))
                 /\ \A o \in DOMAIN accounts[hex].devices \ {toHex(d)} :
                      /\ Has(r.s.accounts[hex].devices, o)
                      /\ r.s.accounts[hex].devices[o] = accounts[hex].devices[o]

\* A store in which a device bound to a session token there is deleted, while
\* deleteDevice of a device its account does not have is refused.
C13_Witness ==
  /\ \E uid \in Uids, d \in DeviceIds :
       /\ Has(accounts, toHex(uid))
       /\ Has(accounts[toHex(uid)].devices, toHex(d))
       /\ ~Falsy(accounts[toHex(uid)].devices[toHex(d)].sessionTokenId)
       /\ Has(sessionTokens, toHex(accounts[toHex(uid)].devices[toHex(d)].sessionTokenId))
       /\ deleteDevice(Store, uid, d).err = "ok"
  /\ \E uid \in Uids, d \in DeviceIds :
       /\ Has(accounts, toHex(uid))
       /\ deleteDevice(Store, uid, d).err = "NotFound"

-----------------------------------------------------------------------------
\* Payloads that supply no sessionTokenId.
UnboundInfos ==
  {[name |-> "tablet"], [type |-> "mobile", callbackURL |-> "https://push"],
   [name |-> "tablet", callbackPublicKey |-> ""]}

\* The value a device field takes from a payload that supplies it.
Supplied(deviceInfo, k) ==
  IF k = "callbackPublicKey" /\ deviceInfo[k] = "" THEN ZeroKey ELSE deviceInfo[k]

(* C14: updateDevice of an existing device with a payload that supplies no *)
(* sessionTokenId succeeds; the device keeps its sessionTokenId, the       *)
(* session token it names keeps its deviceKey, the fields the payload      *)
(* supplies take the payload's values and every other field of the device  *)
(* keeps its value.                                                        *)
C14_UpdateKeepsBinding ==
  \A uid \in Uids, d \in DeviceIds, info \in UnboundInfos :
    (Has(accounts, toHex(uid)) /\ Has(accounts[toHex(uid)].devices, toHex(d))) =>
      LET hex    == toHex(uid)
          device == accounts[hex].devices[toHex(d)]
          r      == updateDevice(Store, uid, d, info)
      IN  /\ r.err = "ok"
          /\ Has(r.s.accounts[hex].devices, toHex(d))
          /\ LET after == r.s.accounts[hex].devices[toHex(d)]
             IN  /\ after.sessionTokenId = device.sessionTokenId
                 /\ DOMAIN after = DOMAIN device
                 /\ \A k \in DOMAIN device :
                      after[k] = IF k \in DOMAIN info THEN Supplied(info, k) ELSE device[k]
          /\ DOMAIN r.s.sessionTokens = DOMAIN sessionTokens
          /\ \A k \in DOMAIN sessionTokens :
               Get(r.s.sessionTokens[k], "deviceKey") = Get(sessionTokens[k], "deviceKey")

-----------------------------------------------------------------------------
\* The hashes the callers check, and the uids they check them for.
Hashes == {"hash1", "hash2", "hash3"}
CheckedUids == Uids \cup {undefined}

(* C15: checkPassword(uid, hash) succeeds exactly when the account exists  *)
(* and its stored verifyHash equals the hash; when the account is absent   *)
(* or the hash differs it fails with IncorrectPassword, never NotFound;    *)
(* and it leaves the store as it was.                                      *)
C15_CheckPassword ==
  \A uid \in CheckedUids, h \in Hashes :
    LET r       == checkPassword(Store, uid, [verifyHash |-> h])
        present == uid # undefined /\ Has(accounts, toHex(uid))
        equal   == present /\ accounts[toHex(uid)].verifyHash = h
    IN  /\ equal => (r.err = "ok" /\ r.item.uid = uid)
        /\ ~equal => r.err = "IncorrectPassword"
        /\ r.s = Store

\* A store in which one account has had its hash replaced and the other is absent:
\* the old hash and the absent account are both refused, the new hash is accepted.
C15_Witness ==
  \E uid \in Uids, other \in Uids :
    /\ Has(accounts, toHex(uid)) /\ ~Has(accounts, toHex(other))
    /\ accounts[toHex(uid)].verifyHash = "hash2"
    /\ checkPassword(Store, uid, [verifyHash |-> "hash1"]).err = "IncorrectPassword"
    /\ checkPassword(Store, uid, [verifyHash |-> "hash2"]).err = "ok"
    /\ checkPassword(Store, other, [verifyHash |-> "hash2"]).err = "IncorrectPassword"

-----------------------------------------------------------------------------
(* C16: for a uid that names no account, unlockAccount and verifyEmail     *)
(* succeed, accountDevices succeeds with an empty list, and each of the    *)
(* three leaves every table as it was.                                     *)
C16_AbsentAccountMasked ==
  \A uid \in CheckedUids :
    (uid = undefined \/ ~Has(accounts, toHex(uid))) =>
      /\ unlockAccount(Store, uid) = Settled(Store, "ok")
      /\ verifyEmail(Store, uid) = Settled(Store, "ok")
      /\ accountDevices(Store, uid).err = "ok"
      /\ accountDevices(Store, uid).item = Empty
      /\ accountDevices(Store, uid).s = Store

\* A store in which the three are called for an absent account while the other
\* account is there, locked and not verified.
C16_Witness ==
  \E uid \in Uids, other \in Uids :
    /\ ~Has(accounts, toHex(uid))
    /\ Has(accounts, toHex(other))
    /\ accounts[toHex(other)].lockedAt # null
    /\ Has(accountUnlockCodes, toUtf8(other))
    /\ accounts[toHex(other)].emailVerified = "0"
    /\ unlockAccount(Store, uid).err = "ok"
    /\ verifyEmail(Store, uid).err = "ok"
    /\ accountDevices(Store, uid).err = "ok"

-----------------------------------------------------------------------------
(* C17: a createDevice or updateDevice that fails, with Duplicate or with  *)
(* NotFound, leaves every table exactly as it was before the call.         *)
C17_FailedDeviceCallWritesNothing ==
  \A c \in OwnDeviceCalls :
    /\ createDevice(Store, c[1], c[2], c[3]).err # "ok" =>
         createDevice(Store, c[1], c[2], c[3]).s = Store
    /\ updateDevice(Store, c[1], c[2], c[3]).err # "ok" =>
         updateDevice(Store, c[1], c[2], c[3]).s = Store

-----------------------------------------------------------------------------
(* C18: in every reachable state a device whose sessionTokenId is not null *)
(* names a session token that exists and whose deviceKey names that        *)
(* device.                                                                 *)
C18_LinkHasBothDirections ==
  \A hex \in DOMAIN accounts :
    \A k \in DOMAIN accounts[hex].devices :
      LET device == accounts[hex].devices[k]
      IN  ~Falsy(device.sessionTokenId) =>
            /\ Has(sessionTokens, toHex(device.sessionTokenId))
            /\ Get(sessionTokens[toHex(device.sessionTokenId)], "deviceKey") = k

-----------------------------------------------------------------------------
\* In the store s the account uid is locked; an unlock code is installed for it.
Locked(s, uid) == s.accounts[toHex(uid)].lockedAt # null
HasCode(s, uid) == unlockCode(s, uid).err = "ok"

(* C19: in every reachable state an account that exists has a non-null     *)
(* lockedAt exactly when an unlock code is installed for it; after         *)
(* lockAccount both are set and unlockCode returns the code, and after     *)
(* unlockAccount, resetAccount or forgotPasswordVerified both are cleared   *)
(* and unlockCode fails with NotFound.                                     *)
C19_LockAndCodeAgree ==
  \A uid \in Uids :
    Has(accounts, toHex(uid)) =>
      LET locked   == lockAccount(Store, uid, LockData).s
          unlocked == unlockAccount(Store, uid).s
          reset    == resetAccount(Store, uid, Credentials("2")).s
      IN  /\ Locked(Store, uid) <=> HasCode(Store, uid)
          /\ Locked(locked, uid) /\ HasCode(locked, uid)
          /\ unlockCode(locked, uid).item.unlockCode = LockData.unlockCode
          /\ ~Locked(unlocked, uid) /\ unlockCode(unlocked, uid).err = "NotFound"
          /\ ~Locked(reset, uid) /\ unlockCode(reset, uid).err = "NotFound"
          /\ \A id \in TokenIds :
               LET verified == forgotPasswordVerified(Store, id, ResetTokenData(id, uid)).s
               IN  ~Locked(verified, uid) /\ unlockCode(verified, uid).err = "NotFound"

-----------------------------------------------------------------------------
(* C20: in every reachable state every session token, key-fetch token,     *)
(* workflow token and unlock code is owned by an account that exists, and  *)
(* the read of every token that is in its table resolves.                  *)
C20_OwnersExist ==
  /\ \A tb \in CascadedTables :
       \A k \in DOMAIN Store[tb] : Has(accounts, toHex(Store[tb][k].uid))
  /\ \A id \in SessionIds \cup TokenIds :
       /\ Has(sessionTokens, toHex(id)) => sessionToken(Store, id).err = "ok"
       /\ Has(keyFetchTokens, toHex(id)) => keyFetchToken(Store, id).err = "ok"
       /\ Has(passwordForgotTokens, toHex(id)) => passwordForgotToken(Store, id).err = "ok"
       /\ Has(passwordChangeTokens, toHex(id)) => passwordChangeToken(Store, id).err = "ok"
       /\ Has(accountResetTokens, toHex(id)) => accountResetToken(Store, id).err = "ok"

-----------------------------------------------------------------------------
\* The session tokens of the store s that an account other than uid owns.
ForeignSessions(s, uid) ==
  {k \in DOMAIN s.sessionTokens : toHex(s.sessionTokens[k].uid) # toHex(uid)}

\* The devices of account uid in the store s that name a session token of another
\* account, each with the session token it names.
ForeignBindings(s, uid) ==
  IF ~Has(s.accounts, toHex(uid)) THEN {}
  ELSE {<<k, toHex(s.accounts[toHex(uid)].devices[k].sessionTokenId)>> :
          k \in {d \in DOMAIN s.accounts[toHex(uid)].devices :
                   /\ ~Falsy(s.accounts[toHex(uid)].devices[d].sessionTokenId)
                   /\ toHex(s.accounts[toHex(uid)].devices[d].sessionTokenId)
                        \in ForeignSessions(s, uid)}}

\* From the store to s2, a call made for account uid left every session token of
\* another account as it was and bound no device of uid to one.
StaysWithin(s2, uid) ==
  /\ ForeignSessions(s2, uid) = ForeignSessions(Store, uid)
  /\ \A k \in ForeignSessions(Store, uid) : s2.sessionTokens[k] = sessionTokens[k]
  /\ ForeignBindings(s2, uid) \subseteq ForeignBindings(Store, uid)

(* C21: createDevice, updateDevice and deleteDevice called for account A   *)
(* never create, modify or delete a session token that another account     *)
(* owns, and never bind a device of A to such a session token.             *)
C21_DeviceCallsStayWithinAccount ==
  \A c \in LinkDeviceCalls :
    /\ StaysWithin(createDevice(Store, c[1], c[2], c[3]).s, c[1])
    /\ StaysWithin(updateDevice(Store, c[1], c[2], c[3]).s, c[1])
    /\ StaysWithin(deleteDevice(Store, c[1], c[2]).s, c[1])

=============================================================================
